---- MODULE Spec2Model ----
\* Model of the highway speed tracker: SpeedEstimator (src/speed_estimation.py)
\* driven by the frame loop of src/main_v7.py.
\*
\* Speeds are Python floats in the source; here they are exact rationals
\* <<n, d>> in lowest terms with d > 0.  Positions are <<x, y>> pixel pairs,
\* so pos[2] is the source's index [1] (the y coordinate).
EXTENDS Integers, Sequences, FiniteSets, TLC

\* ---------------------------------------------------------------- bounds
MaxTime == 2        \* time() returns a value in 0..MaxTime
MaxSamples == 3     \* longest sample list handed to the report on its own

\* ---------------------------------------------------------------- inputs
TrackIds == {1, 2}
ClassIdx == {2, 7}
Times == 0 .. MaxTime
\* centroids: three on the vertical x = 640 (the reference segment passes
\* through <<640, 250>>) and <<32, 155>>, which lies on the reference segment
Positions == { <<640, 100>>, <<640, 200>>, <<640, 300>>, <<32, 155>> }
Uuids == {"u1", "u2"}

\* What the tracker can report in a run: one vehicle with every input, or two
\* vehicles of one class on fewer points and clock readings.
Scenes ==
    { [ids |-> {1}, points |-> Positions, classes |-> ClassIdx, times |-> Times],
      [ids |-> TrackIds, points |-> { <<640, 200>>, <<640, 300>>, <<32, 155>> },
       classes |-> {2}, times |-> {0, MaxTime}] }

\* model.model.names restricted to the classes the detector reports here
names == (2 :> "car") @@ (7 :> "truck")

\* line_pts of main_v7.py: the reference segment
region == << <<0, 150>>, <<1280, 350>> >>

VARIABLES
    spd,          \* self.spd: track id -> speed shown for it
    trkd_ids,     \* self.trkd_ids: ids already speed-estimated, in order
    trk_pt,       \* self.trk_pt: track id -> previous time
    trk_pp,       \* self.trk_pp: track id -> previous point
    speeds,       \* self.speeds: list of <<vehicle type, speed>>
    sample_ids,   \* history: sample_ids[i] is the id speeds[i] was appended for
    pc,           \* position of the main program
    ended,        \* why the frame loop ended ("no" while it has not)
    scene,        \* what the tracker can report in this run
    frame_ids,    \* ids already iterated in the current frame
    last,         \* locals of the latest iteration of the detection loop
    files         \* output file identifier -> lines written

vars == << spd, trkd_ids, trk_pt, trk_pp, speeds, sample_ids,
           pc, ended, scene, frame_ids, last, files >>

estimator == << spd, trkd_ids, trk_pt, trk_pp, speeds, sample_ids >>

\* ------------------------------------------------------------ arithmetic
Abs(x) == IF x < 0 THEN -x ELSE x

RECURSIVE Gcd(_, _)
Gcd(a, b) == IF b = 0 THEN a ELSE Gcd(b, a % b)

\* the rational n/d in lowest terms, d > 0
Rat(n, d) ==
    LET s == IF d < 0 THEN -1 ELSE 1
        g == Gcd(Abs(n), Abs(d))
    IN  << (s * n) \div g, (s * d) \div g >>

RatAdd(p, q) == Rat(p[1] * q[2] + q[1] * p[2], p[2] * q[2])
RatGt(p, q) == p[1] * q[2] > q[1] * p[2]
RatGe(p, q) == p[1] * q[2] >= q[1] * p[2]

\* int(x): truncation toward zero
IntOf(q) == IF q[1] >= 0 THEN q[1] \div q[2] ELSE -((-q[1]) \div q[2])

\* f"{x:>10.2f}": the value in hundredths, rounded half to even
Fmt2(q) ==
    LET m  == 100 * Abs(q[1])
        fl == m \div q[2]
        r  == m % q[2]
        up == IF 2 * r > q[2] THEN 1
              ELSE IF 2 * r < q[2] THEN 0
              ELSE fl % 2
        h  == fl + up
    IN  IF q[1] < 0 THEN -h ELSE h

\* -------------------------------------------------------------- geometry
Sign(x) == IF x > 0 THEN 1 ELSE IF x < 0 THEN -1 ELSE 0

Orient(p, q, r) ==
    Sign((q[1] - p[1]) * (r[2] - p[2]) - (q[2] - p[2]) * (r[1] - p[1]))

Min(a, b) == IF a < b THEN a ELSE b
Max(a, b) == IF a > b THEN a ELSE b

\* r lies in the bounding box of p and q
InBox(p, q, r) ==
    /\ Min(p[1], q[1]) <= r[1] /\ r[1] <= Max(p[1], q[1])
    /\ Min(p[2], q[2]) <= r[2] /\ r[2] <= Max(p[2], q[2])

\* a crossing counted in one direction only: from the side of seg where the
\* orientation is negative to the other side or onto seg
Intersects_OneWay(a, b, seg) ==
    LET c  == seg[1]
        d  == seg[2]
        o1 == Orient(a, b, c)
        o2 == Orient(a, b, d)
        o3 == Orient(c, d, a)
        o4 == Orient(c, d, b)
    IN  o3 <= 0 /\ o4 >= 0 /\ (o1 * o2 <= 0)

\* LineString([a, b]).intersects(LineString(seg)): the closed segments share
\* a point (touching and collinear overlap count)
Intersects(a, b, seg) ==
    LET c  == seg[1]
        d  == seg[2]
        o1 == Orient(a, b, c)
        o2 == Orient(a, b, d)
        o3 == Orient(c, d, a)
        o4 == Orient(c, d, b)
    IN  \/ (o1 * o2 < 0 /\ o3 * o4 < 0)
        \/ (o3 = 0 /\ InBox(c, d, a))
        \/ (o4 = 0 /\ InBox(c, d, b))
        \/ (o1 = 0 /\ InBox(a, b, c))
        \/ (o2 = 0 /\ InBox(a, b, d))

\* ------------------------------------------------------- estimate_speed
\* the value a new id's previous time is initialised to
InitialPrevTime == 0

\* the id's previous time / previous point once lines 80-83 have run
PrevTime(track_id) ==
    IF track_id \in DOMAIN trk_pt THEN trk_pt[track_id] ELSE InitialPrevTime

PrevPoint(track_id, pos) ==
    IF track_id \in DOMAIN trk_pp THEN trk_pp[track_id] ELSE pos

\* the label that never switches to the speed
SpeedLabel_NameOnly(track_id, cls) ==
    [kind |-> "name", text |-> names[cls], value |-> 0]

\* speed_label: the shown speed once the id has one, else the class name
SpeedLabel(track_id, cls) ==
    IF track_id \in DOMAIN spd
    THEN [kind |-> "speed", text |-> "km/h", value |-> IntOf(spd[track_id])]
    ELSE [kind |-> "name", text |-> names[cls], value |-> 0]

Direction(prev, pos) ==
    IF Intersects(prev, pos, region) THEN "known" ELSE "unknown"

InTrkdIds(track_id) == \E i \in DOMAIN trkd_ids : trkd_ids[i] = track_id

\* the guard without the test on trkd_ids
ShouldSample_NoGuard(direction, track_id) ==
    direction = "known"

\* every id not yet in trkd_ids is taken, crossing or not
ShouldSample_NoCrossing(direction, track_id) ==
    ~InTrkdIds(track_id)

\* the guard of the speed calculation
ShouldSample(direction, track_id) ==
    direction = "known" /\ ~InTrkdIds(track_id)

TimeOk(time_difference) == time_difference > 0

\* the displacement taken along both axes
Speed_BothAxes(pos, prev, time_difference) ==
    Rat(Abs(pos[1] - prev[1]) + Abs(pos[2] - prev[2]), time_difference)

\* the displacement without np.abs
Speed_Signed(pos, prev, time_difference) ==
    Rat(pos[2] - prev[2], time_difference)

\* the displacement taken on index 0 (x) instead of index 1 (y)
Speed_OnX(pos, prev, time_difference) ==
    Rat(Abs(pos[1] - prev[1]), time_difference)

Speed(pos, prev, time_difference) ==
    Rat(Abs(pos[2] - prev[2]), time_difference)

NoLast ==
    [track_id |-> 0, cls |-> 0, pos |-> <<0, 0>>, prev_pp |-> <<0, 0>>,
     prev_pt |-> 0, first |-> FALSE, label |-> [kind |-> "none", text |-> "", value |-> 0],
     direction |-> "unknown", sampling |-> FALSE, t1 |-> 0,
     time_difference |-> 0, recorded |-> FALSE]

\* the iteration without the store of the display speed (line 118)
Iteration_SpdNotStored(track_id, pos, cls, t1, t2) ==
    LET prev_pt   == PrevTime(track_id)
        prev_pp   == PrevPoint(track_id, pos)
        label     == SpeedLabel(track_id, cls)
        direction == Direction(prev_pp, pos)
        sampling  == ShouldSample(direction, track_id)
        time_difference == t1 - prev_pt
        recorded  == sampling /\ TimeOk(time_difference)
        speed     == Speed(pos, prev_pp, time_difference)
    IN  /\ trkd_ids' = IF sampling THEN Append(trkd_ids, track_id) ELSE trkd_ids
        /\ spd' = spd
        /\ speeds' = IF recorded THEN Append(speeds, <<names[cls], speed>>) ELSE speeds
        /\ sample_ids' = IF recorded THEN Append(sample_ids, track_id) ELSE sample_ids
        /\ trk_pt' = (track_id :> t2) @@ trk_pt
        /\ trk_pp' = (track_id :> pos) @@ trk_pp
        /\ last' = [track_id |-> track_id, cls |-> cls, pos |-> pos,
                    prev_pp |-> prev_pp, prev_pt |-> prev_pt,
                    first |-> track_id \notin DOMAIN trk_pt,
                    label |-> label, direction |-> direction,
                    sampling |-> sampling,
                    t1 |-> IF sampling THEN t1 ELSE 0,
                    time_difference |-> IF sampling THEN time_difference ELSE 0,
                    recorded |-> recorded]

\* the iteration with one previous time shared by all the ids seen
Iteration_OneClock(track_id, pos, cls, t1, t2) ==
    LET prev_pt   == PrevTime(track_id)
        prev_pp   == PrevPoint(track_id, pos)
        label     == SpeedLabel(track_id, cls)
        direction == Direction(prev_pp, pos)
        sampling  == ShouldSample(direction, track_id)
        time_difference == t1 - prev_pt
        recorded  == sampling /\ TimeOk(time_difference)
        speed     == Speed(pos, prev_pp, time_difference)
    IN  /\ trkd_ids' = IF sampling THEN Append(trkd_ids, track_id) ELSE trkd_ids
        /\ spd' = IF recorded THEN (track_id :> speed) @@ spd ELSE spd
        /\ speeds' = IF recorded THEN Append(speeds, <<names[cls], speed>>) ELSE speeds
        /\ sample_ids' = IF recorded THEN Append(sample_ids, track_id) ELSE sample_ids
        /\ trk_pt' = [id \in DOMAIN trk_pt \cup {track_id} |-> t2]
        /\ trk_pp' = (track_id :> pos) @@ trk_pp
        /\ last' = [track_id |-> track_id, cls |-> cls, pos |-> pos,
                    prev_pp |-> prev_pp, prev_pt |-> prev_pt,
                    first |-> track_id \notin DOMAIN trk_pt,
                    label |-> label, direction |-> direction,
                    sampling |-> sampling,
                    t1 |-> IF sampling THEN t1 ELSE 0,
                    time_difference |-> IF sampling THEN time_difference ELSE 0,
                    recorded |-> recorded]

\* one iteration of the loop over the frame's detections: the detection of
\* track_id at centroid pos with class cls; t1 and t2 are what the two time()
\* calls return
Iteration(track_id, pos, cls, t1, t2) ==
    LET prev_pt   == PrevTime(track_id)
        prev_pp   == PrevPoint(track_id, pos)
        label     == SpeedLabel(track_id, cls)
        direction == Direction(prev_pp, pos)
        sampling  == ShouldSample(direction, track_id)
        time_difference == t1 - prev_pt
        recorded  == sampling /\ TimeOk(time_difference)
        speed     == Speed(pos, prev_pp, time_difference)
    IN  /\ trkd_ids' = IF sampling THEN Append(trkd_ids, track_id) ELSE trkd_ids
        /\ spd' = IF recorded THEN (track_id :> speed) @@ spd ELSE spd
        /\ speeds' = IF recorded THEN Append(speeds, <<names[cls], speed>>) ELSE speeds
        /\ sample_ids' = IF recorded THEN Append(sample_ids, track_id) ELSE sample_ids
        /\ trk_pt' = (track_id :> t2) @@ trk_pt
        /\ trk_pp' = (track_id :> pos) @@ trk_pp
        /\ last' = [track_id |-> track_id, cls |-> cls, pos |-> pos,
                    prev_pp |-> prev_pp, prev_pt |-> prev_pt,
                    first |-> track_id \notin DOMAIN trk_pt,
                    label |-> label, direction |-> direction,
                    sampling |-> sampling,
                    t1 |-> IF sampling THEN t1 ELSE 0,
                    time_difference |-> IF sampling THEN time_difference ELSE 0,
                    recorded |-> recorded]

Detect ==
    /\ pc = "frame"
    /\ \E track_id \in scene.ids \ frame_ids, pos \in scene.points,
          cls \in scene.classes, t2 \in scene.times :
         \E t1 \in IF ShouldSample(Direction(PrevPoint(track_id, pos), pos), track_id)
                   THEN scene.times ELSE {t2} :
            /\ Iteration(track_id, pos, cls, t1, t2)
            /\ frame_ids' = frame_ids \cup {track_id}
    /\ UNCHANGED << pc, ended, scene, files >>

\* estimate_speed returns: the frame is displayed and the key is polled next
EndFrame ==
    /\ pc = "frame"
    /\ pc' = "key"
    /\ last' = NoLast
    /\ UNCHANGED << estimator, ended, scene, frame_ids, files >>

\* ------------------------------------------------------------- main loop
\* cap.read() succeeds: the tracker runs and estimate_speed is entered
ReadFrame ==
    /\ pc = "loop"
    /\ frame_ids' = {}
    /\ pc' = "frame"
    /\ UNCHANGED << estimator, ended, scene, last, files >>

\* cap.read() fails: the stream is exhausted
StreamEnd ==
    /\ pc = "loop"
    /\ ended' = "exhausted"
    /\ pc' = "save"
    /\ UNCHANGED << estimator, scene, frame_ids, last, files >>

\* a stop on 'q' that leaves the program without saving
KeyStop_NoSave ==
    /\ pc = "key"
    /\ ended' = "key"
    /\ pc' = "done"
    /\ UNCHANGED << estimator, scene, frame_ids, last, files >>

\* waitKey reports 'q'
KeyStop ==
    /\ pc = "key"
    /\ ended' = "key"
    /\ pc' = "save"
    /\ UNCHANGED << estimator, scene, frame_ids, last, files >>

\* waitKey reports no 'q': back to the loop head
KeyNone ==
    /\ pc = "key"
    /\ pc' = "loop"
    /\ UNCHANGED << estimator, ended, scene, frame_ids, last, files >>

\* --------------------------------------------------- save_speeds_to_file
\* the speed above which a sample line is marked
Threshold == 100

\* the comparison with >= in place of >
Marked_AtLeast(speed) == RatGe(speed, <<Threshold, 1>>)

Marked(speed) == RatGt(speed, <<Threshold, 1>>)

TextLine(text) ==
    [kind |-> "text", type |-> text, width |-> 0, value |-> 0, marker |-> FALSE]

\* a sample's line: the type left-aligned in width columns, the speed with
\* two decimals (value, in hundredths), the marker when the speed is marked
SampleLine(vehicle_type, speed) ==
    IF Marked(speed)
    THEN [kind |-> "sample", type |-> vehicle_type, width |-> 13,
          value |-> Fmt2(speed), marker |-> TRUE]
    ELSE [kind |-> "sample", type |-> vehicle_type, width |-> 15,
          value |-> Fmt2(speed), marker |-> FALSE]

AverageLine(vehicle_type, average_speed) ==
    [kind |-> "average", type |-> vehicle_type, width |-> 15,
     value |-> Fmt2(average_speed), marker |-> FALSE]

\* the keys of vehicle_speeds in insertion order: each type once, in the
\* order of its first sample
RECURSIVE Keys(_)
Keys(samples) ==
    IF samples = << >> THEN << >>
    ELSE LET n    == Len(samples)
             rest == Keys(SubSeq(samples, 1, n - 1))
             t    == samples[n][1]
         IN  IF \E i \in DOMAIN rest : rest[i] = t THEN rest ELSE Append(rest, t)

\* vehicle_speeds[vehicle_type]: the type's speeds in sample order
RECURSIVE SpeedsOfType(_, _)
SpeedsOfType(samples, vehicle_type) ==
    IF samples = << >> THEN << >>
    ELSE LET n    == Len(samples)
             rest == SpeedsOfType(SubSeq(samples, 1, n - 1), vehicle_type)
         IN  IF samples[n][1] = vehicle_type THEN Append(rest, samples[n][2]) ELSE rest

\* sum(speeds)
RECURSIVE Sum(_)
Sum(list) ==
    IF list = << >> THEN <<0, 1>>
    ELSE RatAdd(Sum(SubSeq(list, 1, Len(list) - 1)), list[Len(list)])

\* the sum left undivided
AverageSpeed_NoDivision(list) == Sum(list)

\* sum(speeds) / len(speeds)
AverageSpeed(list) == LET total == Sum(list) IN Rat(total[1], total[2] * Len(list))

\* a report that starts with the file's own identifier
Report_WithId(samples, unique_id) ==
    << TextLine(unique_id) >>
    \o [i \in 1 .. Len(samples) |-> SampleLine(samples[i][1], samples[i][2])]

\* what the two with-blocks write to the file
Report(samples, unique_id) ==
    LET keys == Keys(samples)
    IN  << TextLine("Vehicle Type      Speed (km/h)"),
           TextLine("==============================") >>
        \o [i \in 1 .. Len(samples) |-> SampleLine(samples[i][1], samples[i][2])]
        \o << TextLine(""),
              TextLine("Average Speeds:"),
              TextLine("==============================") >>
        \o [k \in 1 .. Len(keys) |->
              AverageLine(keys[k], AverageSpeed(SpeedsOfType(samples, keys[k])))]

\* save_speeds_to_file with uuid4() returning unique_id: the file
\* output/speeds_<unique_id>.txt holds the report
SaveSpeedsToFile(unique_id) ==
    /\ files' = (unique_id :> Report(speeds, unique_id)) @@ files
    /\ UNCHANGED << estimator, scene, frame_ids, last >>

\* the loop has ended: release the capture and save the speeds
Save ==
    /\ pc = "save"
    /\ \E unique_id \in Uuids : SaveSpeedsToFile(unique_id)
    /\ pc' = "done"
    /\ UNCHANGED ended

Init ==
    /\ spd = << >>
    /\ trkd_ids = << >>
    /\ trk_pt = << >>
    /\ trk_pp = << >>
    /\ speeds = << >>
    /\ sample_ids = << >>
    /\ pc = "loop"
    /\ ended = "no"
    /\ scene \in Scenes
    /\ frame_ids = {}
    /\ last = NoLast
    /\ files = << >>

Next ==
    \/ ReadFrame
    \/ Detect
    \/ EndFrame
    \/ KeyNone
    \/ KeyStop
    \/ StreamEnd
    \/ Save

Spec == Init /\ [][Next]_vars

\* ------------------------------------------- the report function on its own
SampleSpeeds == { <<50, 1>>, <<70, 1>>, <<100, 1>>, <<120, 1>>, <<401, 4>> }
SampleTypes == { "car", "truck" }

SampleLists ==
    UNION { [1 .. n -> SampleTypes \X SampleSpeeds] : n \in 0 .. MaxSamples }

\* an estimator holding any sample list, on which save_speeds_to_file is
\* called (each call draws a fresh identifier)
InitReport ==
    /\ speeds \in SampleLists
    /\ sample_ids = [i \in 1 .. Len(speeds) |-> i]
    /\ spd = << >>
    /\ trkd_ids = << >>
    /\ trk_pt = << >>
    /\ trk_pp = << >>
    /\ pc = "report"
    /\ ended = "no"
    /\ scene \in { sc \in Scenes : sc.ids = TrackIds }
    /\ frame_ids = {}
    /\ last = NoLast
    /\ files = << >>

CallSave ==
    /\ pc = "report"
    /\ \E unique_id \in Uuids \ DOMAIN files : SaveSpeedsToFile(unique_id)
    /\ UNCHANGED << pc, ended >>

NextReport == CallSave

SpecReport == InitReport /\ [][NextReport]_vars

\* ------------------------------------------ the crossing test on its own
\* end points of a motion: on either side of the reference segment, on it,
\* at its ends, and on its line beyond its end
CrossX == {0, 32, 640, 1280, 1312}
CrossY == {100, 150, 155, 250, 300, 350, 355}
CrossPoints == CrossX \X CrossY

\* an iteration that has stored prev_pp and reads the centroid pos
InitCross ==
    /\ \E a \in CrossPoints, b \in CrossPoints :
          last = [NoLast EXCEPT !.track_id = 1, !.prev_pp = a, !.pos = b]
    /\ spd = << >>
    /\ trkd_ids = << >>
    /\ trk_pt = << >>
    /\ trk_pp = << >>
    /\ speeds = << >>
    /\ sample_ids = << >>
    /\ pc = "cross"
    /\ ended = "no"
    /\ scene \in { sc \in Scenes : sc.ids = TrackIds }
    /\ frame_ids = {}
    /\ files = << >>

\* the direction test of the iteration
Cross ==
    /\ pc = "cross"
    /\ last' = [last EXCEPT !.direction = Direction(last.prev_pp, last.pos)]
    /\ pc' = "crossed"
    /\ UNCHANGED << estimator, ended, scene, frame_ids, files >>

NextCross == Cross

SpecCross == InitCross /\ [][NextCross]_vars

\* ================================================================ claims
\* number of samples appended for track_id
SamplesFor(track_id) ==
    Cardinality({ i \in DOMAIN sample_ids : sample_ids[i] = track_id })

\* the sample appended for track_id (when it has one)
SampleOf(track_id) ==
    speeds[CHOOSE i \in DOMAIN sample_ids : sample_ids[i] = track_id]

\* the latest loop iteration's locals are in scope
InIteration == last.track_id \in TrackIds

\* C1: at-most-once sampling: whatever the frames, positions and clock
\* readings, at most one speed sample is ever appended for a track id.
C1_AtMostOnce ==
    \A track_id \in TrackIds : SamplesFor(track_id) <= 1

\* C1 witness: an id that already had its sample crosses the region again and
\* still has exactly one sample.
C1_Witness ==
    /\ InIteration
    /\ last.direction = "known"
    /\ last.label.kind = "speed"
    /\ ~last.recorded
    /\ SamplesFor(last.track_id) = 1

\* C2 (as claimed): when an unsampled id seen before crosses the region and
\* the elapsed time since its previous time is <= 0, no sample is recorded
\* and the id is not moved to the sampled state (it stays eligible for a
\* later frame).
C2_ZeroElapsedKeepsEligible ==
    (InIteration /\ ~last.first /\ last.sampling /\ last.time_difference <= 0)
        => (~last.recorded /\ ~InTrkdIds(last.track_id))

\* the label drawn in the latest iteration: the class name if no sample
\* existed for the id when it was drawn, else the speed of the id's sample
C3_LabelState ==
    InIteration =>
        LET track_id == last.track_id
            had      == track_id \in DOMAIN spd /\ ~last.recorded
        IN  /\ had = (SamplesFor(track_id) = 1 /\ ~last.recorded)
            /\ had => last.label = [kind |-> "speed", text |-> "km/h",
                                    value |-> IntOf(SampleOf(track_id)[2])]
            /\ ~had => last.label = [kind |-> "name", text |-> names[last.cls],
                                     value |-> 0]

\* a step keeps every id's shown speed and its sample
C3_SpeedKept ==
    \A track_id \in DOMAIN spd :
        /\ track_id \in DOMAIN spd'
        /\ spd'[track_id] = spd[track_id]
        /\ SamplesFor(track_id)' = 1
        /\ SampleOf(track_id)' = SampleOf(track_id)

\* C3: the label drawn for an id is its class name as long as no sample
\* exists for it when the label is drawn, and afterwards the speed of its
\* sample (shown as int(speed) km/h); a shown speed never changes or reverts.
C3_MonotonicLabel == [](C3_LabelState) /\ [][C3_SpeedKept]_vars

\* C3 witness: an id sampled in an earlier frame is drawn with its speed, and
\* the speed is not a whole number (the label shows its integer part).
C3_Witness ==
    /\ InIteration
    /\ last.label.kind = "speed"
    /\ ~last.recorded
    /\ spd[last.track_id][2] # 1
    /\ last.label.value > 0

\* C4 (as claimed): an id whose motion between two observations satisfied the
\* crossing condition in a processed frame has exactly one sample (here on
\* the frame of its first crossing).
C4_ExactlyOnceForCrossing ==
    (InIteration /\ ~last.first /\ last.sampling)
        => SamplesFor(last.track_id) = 1

\* the latest iteration is the second observation of the only track, never
\* sampled before, seen at from at time 0 and now at to at time 2
Scenario(from, to) ==
    /\ InIteration
    /\ ~last.first
    /\ DOMAIN trk_pt = {last.track_id}
    /\ last.prev_pp = from
    /\ last.prev_pt = 0
    /\ last.pos = to
    /\ trk_pt[last.track_id] = 2
    /\ last.sampling => last.time_difference = 2
    /\ InTrkdIds(last.track_id) => last.sampling
    /\ Len(speeds) = IF last.recorded THEN 1 ELSE 0

\* C5 (as claimed): the track seen at (640,100) at time 0 and at (640,200) at
\* time 2 gets exactly one sample, of speed 50, under its class label.
C5_ScenarioAsClaimed ==
    Scenario(<<640, 100>>, <<640, 200>>)
        => speeds = << <<names[last.cls], <<50, 1>>>> >>

\* C5 (amended): that motion stays above the reference segment and records
\* nothing; the track seen at (640,200) at time 0 and at (640,300) at time 2
\* gets exactly one sample, of speed |300-200|/2 = 50, under its class label.
C5_Scenario ==
    /\ Scenario(<<640, 100>>, <<640, 200>>) => speeds = << >>
    /\ Scenario(<<640, 200>>, <<640, 300>>)
          => speeds = << <<names[last.cls], <<50, 1>>>> >>

\* C5 witness: the crossing scenario has run and left its one sample of 50.
C5_Witness ==
    /\ Scenario(<<640, 200>>, <<640, 300>>)
    /\ speeds = << <<names[last.cls], <<50, 1>>>> >>
    /\ sample_ids = << last.track_id >>

\* C6: every speed in the sample list is >= 0, for upward and downward
\* crossings and any clock readings.
C6_NonNegative ==
    \A i \in DOMAIN speeds : speeds[i][2][1] >= 0 /\ speeds[i][2][2] > 0

\* C6 witness: a sample taken on an upward crossing (y decreasing), positive.
C6_Witness ==
    /\ InIteration
    /\ last.recorded
    /\ last.pos[2] < last.prev_pp[2]
    /\ speeds[Len(speeds)][2][1] > 0

\* number of sample lines in a file's content
SampleLines(content) ==
    Cardinality({ i \in DOMAIN content : content[i].kind = "sample" })

\* no report before the loop's end, one report after it, over all samples
C7_State ==
    /\ Cardinality(DOMAIN files) <= 1
    /\ (ended # "no") = (pc \in {"save", "done"})
    /\ (files # << >>) = (pc = "done")
    /\ \A f \in DOMAIN files : SampleLines(files[f]) = Len(speeds)

\* the loop ends only from its head (stream exhausted) or from the key poll,
\* and the step taken once it has ended is the one run of the report, which
\* leaves the samples as they were
C7_Step ==
    /\ (ended = "no" /\ ended' # "no") =>
          /\ pc' = "save"
          /\ files' = << >>
          /\ (ended' = "exhausted") = (pc = "loop")
          /\ (ended' = "key") = (pc = "key")
    /\ pc = "save" =>
          /\ pc' = "done"
          /\ Cardinality(DOMAIN files') = 1
          /\ speeds' = speeds
          /\ ended' = ended
    /\ pc = "done" => UNCHANGED vars

\* C7: once the frame loop has ended, by exhaustion of the stream or by the
\* stop key, save_speeds_to_file runs exactly once over the samples
\* accumulated so far (it is the next and only step the program can take),
\* and it never runs while the loop is going.
C7_ReportAlways == [](C7_State) /\ [][C7_Step]_vars

\* C7 witness: the loop was stopped by the key with a sample accumulated and
\* the one report holds it.
C7_Witness ==
    /\ ended = "key"
    /\ pc = "done"
    /\ Len(speeds) = 1
    /\ \E f \in DOMAIN files : SampleLines(files[f]) = 1

\* ---- the report (SpecReport)
\* positions of the samples of a type
IndexesOf(vehicle_type) ==
    { i \in DOMAIN speeds : speeds[i][1] = vehicle_type }

FirstIndex(vehicle_type) ==
    CHOOSE i \in IndexesOf(vehicle_type) : \A j \in IndexesOf(vehicle_type) : i <= j

\* the exact mean of a type's speeds: its samples brought to the common
\* denominator den, summed and divided by their number
MeanOf(vehicle_type) ==
    LET idx == IndexesOf(vehicle_type)
        RECURSIVE Den(_)
        Den(S) == IF S = {} THEN 1
                  ELSE LET i == CHOOSE x \in S : TRUE
                       IN  speeds[i][2][2] * Den(S \ {i})
        den == Den(idx)
        RECURSIVE Num(_)
        Num(S) == IF S = {} THEN 0
                  ELSE LET i == CHOOSE x \in S : TRUE
                       IN  speeds[i][2][1] * (den \div speeds[i][2][2]) + Num(S \ {i})
    IN  Rat(Num(idx), den * Cardinality(idx))

\* the average lines of a file's content: what follows the five fixed lines
\* and the sample lines
AverageLines(content) ==
    SubSeq(content, Len(speeds) + 6, Len(content))

\* the content of one report against the sample list
C8_File(content) ==
    LET n    == Len(speeds)
        avgs == AverageLines(content)
    IN  /\ Len(content) = n + 5 + Cardinality({ speeds[i][1] : i \in DOMAIN speeds })
        /\ \A i \in 1 .. n :
              /\ content[2 + i].kind = "sample"
              /\ content[2 + i].type = speeds[i][1]
              /\ content[2 + i].value = Fmt2(speeds[i][2])
        /\ \A k \in DOMAIN avgs :
              /\ avgs[k].kind = "average"
              /\ IndexesOf(avgs[k].type) # {}
              /\ avgs[k].value = Fmt2(MeanOf(avgs[k].type))
              /\ \A m \in DOMAIN avgs :
                    k < m => FirstIndex(avgs[k].type) < FirstIndex(avgs[m].type)
        /\ speeds = << <<"car", <<50, 1>>>>, <<"car", <<70, 1>>>>, <<"truck", <<120, 1>>>> >>
              => /\ Len(avgs) = 2
                 /\ avgs[1].type = "car" /\ avgs[1].value = 6000
                 /\ avgs[2].type = "truck" /\ avgs[2].value = 12000

\* C8: the report holds one sample line per sample in insertion order, then
\* one average line per type that has a sample, in order of the types' first
\* samples, each the mean of the type's speeds (written with two decimals);
\* no samples, no average lines.
C8_Aggregate ==
    \A f \in DOMAIN files : C8_File(files[f])

\* C8 witness: the report of car 50, car 70, truck 120.
C8_Witness ==
    /\ speeds = << <<"car", <<50, 1>>>>, <<"car", <<70, 1>>>>, <<"truck", <<120, 1>>>> >>
    /\ \E f \in DOMAIN files : AverageLines(files[f])[1].value = 6000

\* a second witness of C8's edge: the report of no samples
C8_EmptyReported ==
    speeds = << >> /\ \E f \in DOMAIN files : Len(files[f]) = 5

\* C9: a sample line carries the marker exactly when its speed is strictly
\* above 100; average lines never carry it.
C9_Marker ==
    \A f \in DOMAIN files :
        /\ \A i \in DOMAIN speeds :
              files[f][2 + i].marker = (speeds[i][2][1] > 100 * speeds[i][2][2])
        /\ \A k \in DOMAIN AverageLines(files[f]) :
              ~AverageLines(files[f])[k].marker

\* C9 witness: a report with an unmarked sample of exactly 100, a marked
\* sample, and an unmarked average above 100.
C9_Witness ==
    \E f \in DOMAIN files :
        /\ \E i \in DOMAIN speeds : speeds[i][2] = <<100, 1>> /\ ~files[f][2 + i].marker
        /\ \E i \in DOMAIN speeds : files[f][2 + i].marker
        /\ \E k \in DOMAIN AverageLines(files[f]) :
              AverageLines(files[f])[k].value > 10000

\* all reports written so far have the same content
C10_SameContent ==
    \A f \in DOMAIN files, g \in DOMAIN files : files[f] = files[g]

\* a step keeps the sample list and the reports already written
C10_SamplesKept ==
    /\ speeds' = speeds
    /\ \A f \in DOMAIN files : f \in DOMAIN files' /\ files'[f] = files[f]

\* C10: reports generated from the same sample list under different file
\* identifiers have identical content, and generating a report leaves the
\* sample list (and the reports already written) unchanged.
C10_Deterministic == [](C10_SameContent) /\ [][C10_SamplesKept]_vars

\* C10 witness: two reports of a non-empty sample list, under two identifiers.
C10_Witness ==
    /\ Cardinality(DOMAIN files) = 2
    /\ speeds # << >>

\* ---- the crossing test (SpecCross)
\* C11: crossing symmetry: the test gives for the motion from A to B what it
\* gives for the motion from B to A, for all distinct A and B.
C11_CrossingSymmetry ==
    (pc = "crossed" /\ last.prev_pp # last.pos)
        => (last.direction = "known") = Intersects(last.pos, last.prev_pp, region)

\* C11 witness: a motion that properly crosses the reference segment, found
\* crossing (and, by C11, so is its reverse).
C11_Witness ==
    /\ pc = "crossed"
    /\ last.prev_pp = <<640, 100>>
    /\ last.pos = <<640, 300>>
    /\ last.direction = "known"

\* a second case of C11: a motion beside the segment's end, on its line,
\* found not crossing
C11_NoCrossReached ==
    /\ pc = "crossed"
    /\ last.prev_pp = <<1312, 355>>
    /\ last.pos = <<1312, 100>>
    /\ last.direction = "unknown"

\* ---- sampling trigger (Spec)
\* the step is the loop iteration of track_id
Processes(track_id) ==
    /\ pc = "frame"
    /\ track_id \notin frame_ids
    /\ frame_ids' = frame_ids \cup {track_id}
    /\ last'.track_id = track_id

\* the position stored for track_id when its iteration starts (the centroid
\* just read when it has none yet)
StoredPoint(track_id) ==
    IF track_id \in DOMAIN trk_pp THEN trk_pp[track_id] ELSE last'.pos

\* C12: sampling trigger: a sample is recorded for an id in a frame only if
\* the segment from its stored previous position to its current position
\* meets the region and the id was not in the sampled state; the id enters
\* the sampled state in the first frame where both hold, and never in a frame
\* where the crossing test is false.
C12_Step ==
    \A track_id \in TrackIds :
        LET crossing == Intersects(StoredPoint(track_id), last'.pos, region)
            was      == InTrkdIds(track_id)
            enters   == ~was /\ InTrkdIds(track_id)'
            sampled  == SamplesFor(track_id)' > SamplesFor(track_id)
        IN  /\ sampled => (Processes(track_id) /\ crossing /\ ~was)
            /\ enters => (Processes(track_id) /\ crossing)
            /\ (Processes(track_id) /\ crossing /\ ~was) => enters

C12_SamplingTrigger == [][C12_Step]_vars

\* C12 witness: an id seen before moves across the region, is sampled and
\* enters the sampled state in that frame.
C12_Witness ==
    /\ InIteration
    /\ ~last.first
    /\ last.prev_pp = <<640, 200>>
    /\ last.pos = <<640, 300>>
    /\ last.sampling
    /\ last.recorded
    /\ InTrkdIds(last.track_id)

\* ---- speed formula (Spec)
\* the time stored for track_id when its iteration starts
StoredTime(track_id) ==
    IF track_id \in DOMAIN trk_pt THEN trk_pt[track_id] ELSE InitialPrevTime

\* C13: speed formula: a recorded sample's speed is the absolute difference
\* of the y coordinates of the current and the stored previous position,
\* divided by the time elapsed since the stored previous time, which is > 0;
\* the x coordinates play no part, and the sample's class is the label of the
\* detection's class in that frame.
C13_Step ==
    \A track_id \in TrackIds :
        SamplesFor(track_id)' > SamplesFor(track_id) =>
            LET elapsed == last'.t1 - StoredTime(track_id)
                dy      == Abs(last'.pos[2] - StoredPoint(track_id)[2])
            IN  /\ Processes(track_id)
                /\ elapsed > 0
                /\ speeds' = Append(speeds, << names[last'.cls], Rat(dy, elapsed) >>)

C13_SpeedFormula == [][C13_Step]_vars

\* C13 witness: a truck moves 608 px along x and 55 px along y in 2 s and its
\* sample is (truck, 55/2).
C13_Witness ==
    /\ InIteration
    /\ last.recorded
    /\ last.prev_pp = <<640, 100>>
    /\ last.pos = <<32, 155>>
    /\ speeds[Len(speeds)] = << "truck", <<55, 2>> >>

\* ---- first observation (Spec)
\* C14 (as claimed): in the iteration that first observes an id, its previous
\* time is initialised to a clock reading of that observation, not to zero,
\* and its previous position to its current position, so that no elapsed
\* time of the id is measured from time zero.
C14_FirstObservationInit ==
    (InIteration /\ last.first) =>
        /\ last.prev_pp = last.pos
        /\ \/ last.prev_pt = trk_pt[last.track_id]
           \/ last.sampling /\ last.prev_pt = last.t1

\* ---- bookkeeping refresh (Spec)
\* C15 (as claimed): when the iteration of an id ends, the id's stored previous
\* time and position are those of the current frame, whatever the crossing
\* test gave and whether or not a sample was taken or the id was sampled
\* before; hence a sample's elapsed time and displacement span the interval
\* since the id's previous appearance: the sample is not taken on the id's
\* first appearance, and its elapsed time runs from the time stored then.
C15_RefreshedAndSpanning ==
    InIteration =>
        /\ trk_pp[last.track_id] = last.pos
        /\ trk_pt[last.track_id] \in scene.times
        /\ last.recorded =>
              /\ ~last.first
              /\ last.time_difference = last.t1 - last.prev_pt

\* the refresh alone: position of the current frame stored at the end of
\* every iteration, for each outcome of the crossing test and sampling guard
C15_Refreshed ==
    InIteration =>
        /\ trk_pp[last.track_id] = last.pos
        /\ trk_pt[last.track_id] \in scene.times

\* ---- life cycle of a track id (Spec)
\* 0 UNSEEN (no state stored), 1 TRACKING (state stored, not in trkd_ids),
\* 2 SAMPLED (in trkd_ids)
Stage(track_id) ==
    IF InTrkdIds(track_id) THEN 2
    ELSE IF track_id \in DOMAIN trk_pt \/ track_id \in DOMAIN trk_pp THEN 1
    ELSE 0

\* an id in trkd_ids has been observed, and is in the list once
C16_State ==
    /\ \A track_id \in TrackIds :
          InTrkdIds(track_id) =>
              track_id \in DOMAIN trk_pt /\ track_id \in DOMAIN trk_pp
    /\ \A i \in DOMAIN trkd_ids, j \in DOMAIN trkd_ids :
          trkd_ids[i] = trkd_ids[j] => i = j

\* no id moves back, and the list of sampled ids only grows at its end
C16_Step ==
    /\ \A track_id \in TrackIds : Stage(track_id)' >= Stage(track_id)
    /\ Len(trkd_ids') >= Len(trkd_ids)
    /\ SubSeq(trkd_ids', 1, Len(trkd_ids)) = trkd_ids

\* C16: terminal sampled state: each id moves only forward through UNSEEN,
\* TRACKING, SAMPLED; an id in the sampled-id list stays in it in every later
\* frame, is never in it without having been observed, and is never entered
\* in it more than once.
C16_TerminalSampled == [](C16_State) /\ [][C16_Step]_vars

\* C16 witness: both ids are in the sampled state, and one of them crosses
\* the region again in a later frame.
C16_Witness ==
    /\ InIteration
    /\ Len(trkd_ids) = 2
    /\ ~last.first
    /\ last.direction = "known"
    /\ ~last.sampling
    /\ Stage(last.track_id) = 2

\* ---- sampling on the first observation (Spec)
\* C17 (as claimed): in the frame that first observes an id, where its
\* previous position is initialised to its current position, no sample is
\* recorded for it and it does not enter the sampled state, even when the
\* position lies on the reference segment.
C17_NoSampleOnFirstObservation ==
    (InIteration /\ last.first) =>
        /\ last.prev_pp = last.pos
        /\ ~last.recorded
        /\ ~InTrkdIds(last.track_id)

\* ---- sample bookkeeping (Spec)
\* the ids with a display speed are sampled ids, there are as many samples as
\* display speeds, and each display speed is the speed of the id's sample
C18_State ==
    /\ \A track_id \in DOMAIN spd : InTrkdIds(track_id)
    /\ Len(speeds) = Cardinality(DOMAIN spd)
    /\ \A track_id \in DOMAIN spd :
          /\ SamplesFor(track_id) = 1
          /\ spd[track_id] = SampleOf(track_id)[2]

\* the sample list before a step is a prefix of the list after it
C18_Step ==
    /\ Len(speeds') >= Len(speeds)
    /\ SubSeq(speeds', 1, Len(speeds)) = speeds

\* C18: sample bookkeeping consistency: after any sequence of frames the ids
\* with a stored display speed are among the sampled ids, the sample list is
\* as long as the number of ids with a display speed, each display speed is
\* the speed of the id's sample, and the sample list only grows, its content
\* before a frame being a prefix of its content after it.
C18_Bookkeeping == [](C18_State) /\ [][C18_Step]_vars

\* C18 witness: id 1 is in the sampled state without a display speed (its
\* elapsed time was 0), id 2 has a display speed and the only sample.
C18_Witness ==
    /\ Len(trkd_ids) = 2
    /\ DOMAIN spd = {2}
    /\ Len(speeds) = 1
    /\ sample_ids = << 2 >>
    /\ RatGt(spd[2], <<0, 1>>)

\* ---- isolation of the track ids (Spec)
\* the step leaves everything stored for track_id as it was
Untouched(track_id) ==
    /\ (track_id \in DOMAIN trk_pt') = (track_id \in DOMAIN trk_pt)
    /\ track_id \in DOMAIN trk_pt => trk_pt'[track_id] = trk_pt[track_id]
    /\ (track_id \in DOMAIN trk_pp') = (track_id \in DOMAIN trk_pp)
    /\ track_id \in DOMAIN trk_pp => trk_pp'[track_id] = trk_pp[track_id]
    /\ InTrkdIds(track_id)' = InTrkdIds(track_id)
    /\ (track_id \in DOMAIN spd') = (track_id \in DOMAIN spd)
    /\ track_id \in DOMAIN spd => spd'[track_id] = spd[track_id]
    /\ SamplesFor(track_id)' = SamplesFor(track_id)

\* C19: per-track isolation: the iteration of track id X changes only X's own
\* previous time, previous position, sampled flag and display speed and may
\* append X's sample; what is stored for every other id, the ids absent from
\* the frame included, is unchanged, and stale ids keep their state for the
\* rest of the run.
C19_Step ==
    /\ \A track_id \in TrackIds : ~Processes(track_id) => Untouched(track_id)
    /\ \/ speeds' = speeds /\ sample_ids' = sample_ids
       \/ /\ Len(speeds') = Len(speeds) + 1
          /\ SubSeq(speeds', 1, Len(speeds)) = speeds
          /\ sample_ids' = Append(sample_ids, last'.track_id)
          /\ Processes(last'.track_id)

C19_Isolation == [][C19_Step]_vars

\* C19 witness: id 2 is sampled in a frame where id 1, sampled earlier with
\* a display speed, does not appear.
C19_Witness ==
    /\ InIteration
    /\ last.track_id = 2
    /\ last.recorded
    /\ frame_ids = {2}
    /\ 1 \in DOMAIN spd
    /\ InTrkdIds(1)

====
